---- MODULE Spec2Model ----
(***************************************************************************)
(* Verification model of the connection-lifecycle services of the          *)
(* react-native-interview repository:                                      *)
(*   - ServerSentEventsService (EventSource wrapper),                      *)
(*   - WebSocketService (Socket.IO wrapper),                               *)
(*   - MQTTService (MQTT.js wrapper).                                      *)
(* Each service has its own specification (SpecSSE, SpecWS, SpecMQTT); the *)
(* variables of the other services stay at their constructed values.       *)
(***************************************************************************)
EXTENDS Integers, Sequences, FiniteSets, TLC

NULL == "null"

Range(s) == {s[i] : i \in 1..Len(s)}

\* JavaScript Map: a function whose domain is the set of keys present
EmptyMap == [k \in {} |-> NULL]
MapHas(m, k) == k \in DOMAIN m
MapSet(m, k, v) == [x \in DOMAIN m \cup {k} |-> IF x = k THEN v ELSE m[x]]
MapDelete(m, k) == [x \in DOMAIN m \ {k} |-> m[x]]

(***************************************************************************)
(* ServerSentEventsService                                                 *)
(***************************************************************************)

\* enum ConnectionState / EventSource.readyState values
CONNECTING == 0
OPEN == 1
CLOSED == 2

\* Inputs of the SSE model
SseIds == {"a", "b"}
SseUrls == {"u1", "u2"}
SseOptions == {"o1"}
SseListenerPairs == {<<"message", "h1">>, <<"update", "h2">>}
AppStates == {"active", "background"}
NetStates == [isConnected : BOOLEAN, isInternetReachable : BOOLEAN]

VARIABLES
    eventSources,        \* Map<string, EventSource>
    eventListeners,      \* Map<string, {type, listener}[]>
    connectionParams,    \* Map<string, {url, options}>
    appStateListener,    \* TRUE while the AppState subscription is registered
    netInfoSubscription, \* TRUE while the NetInfo subscription is registered
    appState,            \* the platform's current AppState
    netState,            \* the platform's current NetInfo state
    sseEvent             \* the platform event delivered by the last step ("none" if
                         \* it was no platform event) and the ids it re-connected

sseVars == <<eventSources, eventListeners, connectionParams, appStateListener,
             netInfoSubscription, appState, netState, sseEvent>>

VARIABLES
    socket,                 \* this.socket: index into sockets, 0 for null
    sockets,                \* the Socket objects made by io() that are still alive
    connectionUrl,          \* this.connectionUrl
    wsOptions,              \* this.options (queueMessages, reconnection)
    status,                 \* this.status
    explicitDisconnect,     \* this.explicitDisconnect
    messageQueue,           \* this.messageQueue (event names)
    onMessageCallback,      \* the callbacks: NULL or the registered function
    onOpenCallback,
    onStatusChangeCallback,
    appStateSubscribed,     \* TRUE while handleAppStateChange is registered
    pendingConnects,        \* connect() calls suspended at await this.getAuthData()
    lastDelivered,          \* the status the registered onStatusChangeCallback got last
    deferredListeners,      \* the events on() was called for while this.socket was
                            \* null and no connect() was under way ("will be
                            \* attached on next connection")
    lastCall,               \* the last of connect(), disconnect(true) and cleanup()
                            \* the application has called, "none" before the first
    statusCalls             \* the calls of onStatusChangeCallback the last step
                            \* made, in order

wsVars == <<socket, sockets, connectionUrl, wsOptions, status, explicitDisconnect,
            messageQueue, onMessageCallback, onOpenCallback,
            onStatusChangeCallback, appStateSubscribed, pendingConnects,
            lastDelivered, deferredListeners, lastCall, statusCalls>>

VARIABLES
    client,              \* this.client: index into clients, 0 for null
    clients,             \* the clients MQTT.connect has made, each with the promise
                         \* of the connect() call that made it
    connected,           \* this.connected
    connecting,          \* this.connecting
    reconnectAttempts    \* this.reconnectAttempts

mqttVars == <<client, clients, connected, connecting, reconnectAttempts>>

VARIABLES
    storage,             \* the 'mqttSubscriptions' item of AsyncStorage
    ops,                 \* the subscribe() and unsubscribe() calls under way
    latestOp             \* per topic, the last operation the broker acknowledged

subVars == <<storage, ops, latestOp>>

VARIABLES
    todos,               \* the todos state of TodoProvider
    nextId,              \* the ids uuid.v4() has given out so far
    todoCall             \* the last call of a function of the context value

todoVars == <<todos, nextId, todoCall>>

\* The variables a ServerSentEventsService step leaves alone
sseRest == <<wsVars, mqttVars, subVars, todoVars>>

\* The variables a WebSocketService step leaves alone
wsRest == <<eventSources, eventListeners, connectionParams, appStateListener, appState,
            netInfoSubscription, netState, sseEvent, mqttVars, subVars, todoVars>>

\* The variables an MQTTService step leaves alone
mqttRest == <<sseVars, wsVars, subVars, todoVars>>

\* The variables a subscription step of MQTTService leaves alone
subRest == <<sseVars, wsVars, mqttVars, todoVars>>

\* The variables a TodoProvider step leaves alone
todoRest == <<sseVars, wsVars, mqttVars, subVars>>

\* The three maps of the service, as one value the
\* methods transform.
SseState == [es |-> eventSources, el |-> eventListeners, cp |-> connectionParams]

\* new EventSource(url, options): a fresh object in readyState CONNECTING.
\* gen is the object's identity: an object differs in gen from the object it
\* replaces under the same id.
NewEventSource(gen, url, options) ==
    [gen |-> gen, url |-> url, options |-> options, readyState |-> CONNECTING,
     listeners |-> {}]

\* close(id): closes the EventSource and deletes it from eventSources only.
close(S, id) ==
    IF MapHas(S.es, id) THEN [S EXCEPT !.es = MapDelete(@, id)] ELSE S

\* this.eventListeners.get(id) || []
ListenersOf(el, id) == IF MapHas(el, id) THEN el[id] ELSE <<>>

\* connect(id, url, options)
connect(S, id, url, options) ==
    LET S1 == close(S, id)
        gen == IF MapHas(S.es, id) THEN 1 - S.es[id].gen ELSE 0
        S2 == [S1 EXCEPT !.cp = MapSet(@, id, [url |-> url, options |-> options]),
                         !.es = MapSet(@, id, NewEventSource(gen, url, options)),
                         !.el = MapSet(@, id, <<>>)]
        existingListeners == ListenersOf(S2.el, id)
    IN  [S2 EXCEPT !.es[id].listeners = @ \cup Range(existingListeners)]

\* addListener(id, type, listener)
addListener(S, id, pair) ==
    IF ~MapHas(S.es, id) THEN S
    ELSE LET listeners == ListenersOf(S.el, id)
             S1 == [S EXCEPT !.es[id].listeners = @ \cup {pair}]
         IN  IF \E i \in 1..Len(listeners) : listeners[i] = pair
             THEN S1
             ELSE [S1 EXCEPT !.el = MapSet(@, id, Append(listeners, pair))]

\* removeListener(id, type, listener)
removeListener(S, id, pair) ==
    IF ~MapHas(S.es, id) THEN S
    ELSE LET listeners == ListenersOf(S.el, id)
         IN  [S EXCEPT !.es[id].listeners = @ \ {pair},
                       !.el = MapSet(@, id, SelectSeq(listeners, LAMBDA l : l # pair))]

\* closeAll(): closes every source and clears the three maps
closeAll(S) ==
    [S EXCEPT !.es = EmptyMap, !.el = EmptyMap, !.cp = EmptyMap]

\* reconnect(id)
reconnect(S, id) ==
    IF ~MapHas(S.cp, id) THEN S
    ELSE connect(S, id, S.cp[id].url, S.cp[id].options)

\* The test of reconnectAllIfNeeded widened to every source that is not OPEN
NeedsReconnect_AnyNotOpen(eventSource) == eventSource.readyState # OPEN

\* The test of reconnectAllIfNeeded: eventSource.readyState === EventSource.CLOSED
NeedsReconnect(eventSource) == eventSource.readyState = CLOSED

\* reconnectAllIfNeeded(): the loop over eventSources.entries().  An entry
\* that connect() deletes and re-inserts is visited again by the iterator, in
\* readyState CONNECTING, where the loop body does nothing.
RECURSIVE ReconnectLoop(_, _)
ReconnectLoop(S, todo) ==
    IF todo = {} THEN S
    ELSE LET id == CHOOSE i \in todo : TRUE
             S1 == IF MapHas(S.es, id) /\ NeedsReconnect(S.es[id])
                      /\ MapHas(S.cp, id)
                   THEN connect(S, id, S.cp[id].url, S.cp[id].options)
                   ELSE S
         IN  ReconnectLoop(S1, todo \ {id})

reconnectAllIfNeeded(S) ==
    ReconnectLoop(S, DOMAIN S.es)

\* The ids whose EventSource object in the map new is not the object in old
Recreated(old, new) ==
    {i \in DOMAIN new : ~MapHas(old, i) \/ new[i].gen # old[i].gen}

NoSseEvent == [event |-> "none", reconnected |-> {}]

SetSse(S) ==
    /\ eventSources' = S.es
    /\ eventListeners' = S.el
    /\ connectionParams' = S.cp

SseInit ==
    /\ eventSources = EmptyMap
    /\ eventListeners = EmptyMap
    /\ connectionParams = EmptyMap
    /\ appStateListener = TRUE
    /\ netInfoSubscription = TRUE
    /\ appState = "active"
    /\ netState = [isConnected |-> TRUE, isInternetReachable |-> TRUE]
    /\ sseEvent = NoSseEvent

SseConnect(id, url, options) ==
    /\ SetSse(connect(SseState, id, url, options))
    /\ sseEvent' = NoSseEvent
    /\ UNCHANGED sseRest
    /\ UNCHANGED <<appStateListener, netInfoSubscription, appState, netState>>

SseAddListener(id, pair) ==
    /\ SetSse(addListener(SseState, id, pair))
    /\ sseEvent' = NoSseEvent
    /\ UNCHANGED sseRest
    /\ UNCHANGED <<appStateListener, netInfoSubscription, appState, netState>>

SseRemoveListener(id, pair) ==
    /\ SetSse(removeListener(SseState, id, pair))
    /\ sseEvent' = NoSseEvent
    /\ UNCHANGED sseRest
    /\ UNCHANGED <<appStateListener, netInfoSubscription, appState, netState>>

SseClose(id) ==
    /\ SetSse(close(SseState, id))
    /\ sseEvent' = NoSseEvent
    /\ UNCHANGED sseRest
    /\ UNCHANGED <<appStateListener, netInfoSubscription, appState, netState>>

SseCloseAll ==
    /\ SetSse(closeAll(SseState))
    /\ sseEvent' = NoSseEvent
    /\ UNCHANGED sseRest
    /\ UNCHANGED <<appStateListener, netInfoSubscription, appState, netState>>

SseReconnect(id) ==
    /\ SetSse(reconnect(SseState, id))
    /\ sseEvent' = NoSseEvent
    /\ UNCHANGED sseRest
    /\ UNCHANGED <<appStateListener, netInfoSubscription, appState, netState>>

\* cleanup(): closeAll, then both platform subscriptions are removed
SseCleanup ==
    /\ SetSse(closeAll(SseState))
    /\ appStateListener' = FALSE
    /\ netInfoSubscription' = FALSE
    /\ sseEvent' = NoSseEvent
    /\ UNCHANGED sseRest
    /\ UNCHANGED <<appState, netState>>

\* The platform changes the AppState; the 'change' listener of
\* setupAppStateListener runs if it is still registered.
SseAppStateChange(nextAppState) ==
    /\ nextAppState # appState
    /\ appState' = nextAppState
    /\ IF appStateListener /\ nextAppState = "active"
       THEN SetSse(reconnectAllIfNeeded(SseState))
       ELSE UNCHANGED <<eventSources, eventListeners, connectionParams>>
    /\ sseEvent' = [event |-> "appState",
                    reconnected |-> Recreated(eventSources, eventSources')]
    /\ UNCHANGED sseRest
    /\ UNCHANGED <<appStateListener, netInfoSubscription, netState>>

\* The platform changes the network state; the NetInfo listener of
\* setupNetworkListener runs if it is still registered.
SseNetInfoChange(state) ==
    /\ state # netState
    /\ netState' = state
    /\ IF netInfoSubscription /\ state.isConnected /\ state.isInternetReachable
       THEN SetSse(reconnectAllIfNeeded(SseState))
       ELSE UNCHANGED <<eventSources, eventListeners, connectionParams>>
    /\ sseEvent' = [event |-> "netInfo",
                    reconnected |-> Recreated(eventSources, eventSources')]
    /\ UNCHANGED sseRest
    /\ UNCHANGED <<appStateListener, netInfoSubscription, appState>>

\* The library opens the connection of a source: CONNECTING -> OPEN
EventSourceOpen(id) ==
    /\ MapHas(eventSources, id)
    /\ eventSources[id].readyState = CONNECTING
    /\ eventSources' = [eventSources EXCEPT ![id].readyState = OPEN]
    /\ sseEvent' = NoSseEvent
    /\ UNCHANGED sseRest
    /\ UNCHANGED <<eventListeners, connectionParams, appStateListener,
                   netInfoSubscription, appState, netState>>

\* The holder of the EventSource returned by connect() closes it (the
\* service's pauseAll does the same): the source stays in eventSources, CLOSED.
EventSourceClosed(id) ==
    /\ MapHas(eventSources, id)
    /\ eventSources[id].readyState # CLOSED
    /\ eventSources' = [eventSources EXCEPT ![id].readyState = CLOSED]
    /\ sseEvent' = NoSseEvent
    /\ UNCHANGED sseRest
    /\ UNCHANGED <<eventListeners, connectionParams, appStateListener,
                   netInfoSubscription, appState, netState>>

SseNext ==
    \/ \E id \in SseIds, url \in SseUrls, options \in SseOptions :
          SseConnect(id, url, options)
    \/ \E id \in SseIds, pair \in SseListenerPairs : SseAddListener(id, pair)
    \/ \E id \in SseIds, pair \in SseListenerPairs : SseRemoveListener(id, pair)
    \/ \E id \in SseIds : SseClose(id)
    \/ SseCloseAll
    \/ \E id \in SseIds : SseReconnect(id)
    \/ SseCleanup
    \/ \E s \in AppStates : SseAppStateChange(s)
    \/ \E s \in NetStates : SseNetInfoChange(s)
    \/ \E id \in SseIds : EventSourceOpen(id)
    \/ \E id \in SseIds : EventSourceClosed(id)


(***************************************************************************)
(* WebSocketService                                                        *)
(***************************************************************************)

\* Bounds of the WebSocketService model
MaxQueue == 2
MaxPending == 1
MaxSockets == 1

\* Inputs of the WebSocketService model
WsEvents == {"chat", "message", "disconnect"}
WsIncoming == {"chat", "message"}
WsListened == {"chat"}
WsUrls == {"ws1"}
WsOptionSets == {[queueMessages |-> TRUE, reconnection |-> TRUE],
                 [queueMessages |-> FALSE, reconnection |-> FALSE]}

\* Event names socket.emit refuses by throwing
ReservedEvents == {"connect", "connect_error", "disconnect"}

\* Event names the onAny listener of setupEventHandlers skips
StatusEvents == {"connect", "disconnect", "connect_error", "reconnect_attempt",
                 "reconnect_failed", "reconnect_error", "error"}

SocketSlots == 1..MaxSockets

NoSocket == [state |-> "none", handlers |-> FALSE, onAny |-> FALSE, listeners |-> {}]

\* The service's fields as one value the methods transform.  ret is the value
\* the method returns, trace the calls it has made to the socket and to the
\* application's callbacks.
WsState ==
    [socket |-> socket, sockets |-> sockets, connectionUrl |-> connectionUrl,
     status |-> status, explicitDisconnect |-> explicitDisconnect,
     messageQueue |-> messageQueue, onMessageCallback |-> onMessageCallback,
     onOpenCallback |-> onOpenCallback,
     onStatusChangeCallback |-> onStatusChangeCallback,
     pendingConnects |-> pendingConnects, lastDelivered |-> lastDelivered,
     ret |-> NULL, trace |-> <<>>]

Call(W, kind, arg) == [W EXCEPT !.trace = Append(@, <<kind, arg>>)]

\* this.socket && this.socket.connected
SocketConnected(W) == W.socket # 0 /\ W.sockets[W.socket].state = "connected"

\* this.socket && this.socket.connecting
SocketConnecting(W) == W.socket # 0 /\ W.sockets[W.socket].state = "connecting"

\* A Socket object the service does not refer to any more is dropped from
\* the model once it cannot call the service: socket.io has stopped driving
\* it, or removeAllListeners() has left it without a handler.
Collect(W) ==
    [W EXCEPT !.sockets = [i \in SocketSlots |->
                             IF /\ i # W.socket
                                /\ \/ W.sockets[i].state = "closed"
                                   \/ ~W.sockets[i].handlers
                             THEN NoSocket ELSE W.sockets[i]]]

\* handleError(error): passes the error to onErrorCallback, which like
\* onCloseCallback only notifies the application and is not part of the state
handleError(W, error) == W

\* updateStatus without the test this.status !== newStatus: the callback is
\* invoked on every call, whether or not the status changes.
updateStatus_NoChangeTest(W, newStatus) ==
    LET W1 == [W EXCEPT !.status = newStatus]
    IN  IF W1.onStatusChangeCallback # NULL
        THEN [Call(W1, "onStatusChange", newStatus) EXCEPT !.lastDelivered = newStatus]
        ELSE W1

\* updateStatus(newStatus)
updateStatus(W, newStatus) ==
    IF W.status # newStatus
    THEN LET W1 == [W EXCEPT !.status = newStatus]
         IN  IF W1.onStatusChangeCallback # NULL
             THEN [Call(W1, "onStatusChange", newStatus) EXCEPT !.lastDelivered = newStatus]
             ELSE W1
    ELSE W

\* sendMessage(eventName, ...args)
sendMessage(W, eventName) ==
    IF SocketConnected(W)
    THEN IF eventName \in ReservedEvents
         THEN [handleError(W, "emit failed") EXCEPT !.ret = FALSE]
         ELSE [Call(W, "emit", eventName) EXCEPT !.ret = TRUE]
    ELSE IF wsOptions.queueMessages
         THEN [W EXCEPT !.messageQueue = Append(@, eventName), !.ret = FALSE]
         ELSE [handleError(W, "cannot emit") EXCEPT !.ret = FALSE]

\* processMessageQueue(): the while loop
RECURSIVE ProcessLoop(_)
ProcessLoop(W) ==
    IF Len(W.messageQueue) > 0
    THEN LET item == Head(W.messageQueue)
             W1 == [W EXCEPT !.messageQueue = Tail(@)]
             W2 == sendMessage(W1, item)
         IN  IF W2.ret = FALSE /\ ~SocketConnected(W2)
             THEN [W2 EXCEPT !.messageQueue = <<item>> \o W1.messageQueue]
             ELSE ProcessLoop(W2)
    ELSE W

processMessageQueue(W) ==
    IF wsOptions.queueMessages /\ SocketConnected(W) THEN ProcessLoop(W) ELSE W

\* The 'connect' handler of setupEventHandlers
OnConnect(W) ==
    LET W1 == processMessageQueue(updateStatus(W, "OPEN"))
    IN  IF W1.onOpenCallback # NULL THEN Call(W1, "onOpen", "") ELSE W1

\* The 'disconnect' handler of setupEventHandlers
OnDisconnect(W, reason) ==
    LET W1 == updateStatus(W, "CLOSED")
        wasExplicit == reason = "io client disconnect"
        W2 == IF ~wasExplicit /\ wsOptions.reconnection THEN W1
              ELSE IF wasExplicit THEN [W1 EXCEPT !.explicitDisconnect = TRUE]
              ELSE W1
    IN  W2

\* socket.disconnect() of socket.io for the Socket in slot s: a connected
\* socket emits 'disconnect' with reason 'io client disconnect' to its
\* handlers before the call returns; the socket is closed for good.
SocketDisconnect(W, s) ==
    LET wasConnected == W.sockets[s].state = "connected"
        hadHandlers == W.sockets[s].handlers
        W1 == [W EXCEPT !.sockets[s].state = "closed"]
    IN  IF wasConnected /\ hadHandlers
        THEN OnDisconnect(W1, "io client disconnect")
        ELSE W1

\* connect(url), up to the await of getAuthData()
connectStart(W0, url) ==
    LET W == W0
        W1 == IF url # NULL THEN [W EXCEPT !.connectionUrl = url] ELSE W
    IN  IF W1.connectionUrl = NULL THEN handleError(W1, "no url")
        ELSE IF SocketConnected(W1) THEN W1
        ELSE IF SocketConnecting(W1) THEN W1
        ELSE LET W2 == IF W1.socket # 0
                       THEN [SocketDisconnect(W1, W1.socket) EXCEPT !.socket = 0]
                       ELSE W1
                 W3 == [W2 EXCEPT !.explicitDisconnect = FALSE]
                 W4 == updateStatus(W3, "CONNECTING")
             IN  [W4 EXCEPT !.pendingConnects = @ + 1]

\* TRUE iff connect(url) gets as far as the await
ConnectSuspends(W, url) ==
    /\ (url # NULL \/ W.connectionUrl # NULL)
    /\ ~SocketConnected(W)
    /\ ~SocketConnecting(W)

\* The slot io() uses for the Socket object it makes
FreeSlot(W) == CHOOSE i \in SocketSlots :
                  /\ W.sockets[i].state = "none"
                  /\ \A j \in SocketSlots : W.sockets[j].state = "none" => i <= j

\* setupEventHandlers(): the handlers are attached to this.socket; onAny only
\* if onMessageCallback is set at this moment
setupEventHandlers(W) ==
    IF W.socket = 0 THEN W
    ELSE [W EXCEPT !.sockets[W.socket].handlers = TRUE,
                   !.sockets[W.socket].listeners = {},
                   !.sockets[W.socket].onAny = (W.onMessageCallback # NULL)]

\* connect(url), from the await of getAuthData() on.  authOk: the token
\* function of setAuthToken resolved (getAuthData reports a rejection with
\* handleError and the connection is made without auth data); ioOk: io() did
\* not throw.
connectResume(W, authOk, ioOk) ==
    LET W1 == [W EXCEPT !.pendingConnects = @ - 1]
        W2 == IF authOk THEN W1 ELSE handleError(W1, "auth failed")
    IN  IF ioOk
        THEN LET s == FreeSlot(W2)
                 W3 == [W2 EXCEPT !.socket = s,
                                  !.sockets[s] = [NoSocket EXCEPT !.state = "created"]]
                 W4 == setupEventHandlers(W3)
             IN  [W4 EXCEPT !.sockets[s].state = "connecting"]
        ELSE updateStatus(handleError(W2, "init failed"), "CLOSED")

\* disconnect(preventReconnect)
disconnect(W, preventReconnect) ==
    LET W1 == IF preventReconnect THEN [W EXCEPT !.explicitDisconnect = TRUE] ELSE W
    IN  IF W1.socket # 0
        THEN IF SocketConnected(W1) \/ SocketConnecting(W1)
             THEN SocketDisconnect(updateStatus(W1, "CLOSING"), W1.socket)
             ELSE IF preventReconnect THEN [W1 EXCEPT !.explicitDisconnect = TRUE] ELSE W1
        ELSE LET W2 == updateStatus(W1, "CLOSED")
             IN  IF preventReconnect THEN [W2 EXCEPT !.explicitDisconnect = TRUE] ELSE W2

\* cleanup(), after the AppState listener has been removed
cleanup(W) ==
    LET W1 == disconnect(W, TRUE)
        W2 == IF W1.socket # 0
              THEN [W1 EXCEPT !.sockets[W1.socket].handlers = FALSE,
                              !.sockets[W1.socket].onAny = FALSE,
                              !.sockets[W1.socket].listeners = {}]
              ELSE W1
    IN  [W2 EXCEPT !.socket = 0,
                   !.onMessageCallback = NULL,
                   !.onOpenCallback = NULL,
                   !.onStatusChangeCallback = NULL,
                   !.lastDelivered = NULL,
                   !.messageQueue = <<>>]

\* handleAppStateChange(nextAppState)
handleAppStateChange(W, nextAppState) ==
    IF W.socket # 0
    THEN IF nextAppState = "active"
         THEN IF ~SocketConnected(W) /\ ~W.explicitDisconnect /\ wsOptions.reconnection
              THEN connectStart(W, NULL)
              ELSE W
         ELSE W
    ELSE W

\* An application event arrives on the Socket in slot s: the onAny listener,
\* the 'message' handler and the listeners added with on() run.
OnIncoming(W, s, event) ==
    LET W1 == IF W.sockets[s].onAny /\ event \notin StatusEvents
                 /\ W.onMessageCallback # NULL
              THEN Call(W, "onMessage", event) ELSE W
        W2 == IF W.sockets[s].handlers /\ event = "message"
                 /\ W1.onMessageCallback # NULL
              THEN Call(W1, "onMessage", "message") ELSE W1
    IN  IF event \in W.sockets[s].listeners THEN Call(W2, "listener", event) ELSE W2

\* The calls of a trace that went to onStatusChangeCallback
StatusCalls(trace) ==
    SelectSeq(trace, LAMBDA c : c[1] \in {"onStatusChange", "callback(status)"})

\* The slots of sockets are names only: the Socket of this.socket is kept in
\* slot 1, or the first Socket alive if this.socket is null.
Renumber(W) ==
    LET alive == {i \in SocketSlots : W.sockets[i].state # "none"}
        first == IF W.socket # 0 THEN W.socket
                 ELSE IF alive = {} THEN 1
                 ELSE CHOOSE i \in alive : \A j \in alive : i <= j
        swap(i) == IF i = 1 THEN first ELSE IF i = first THEN 1 ELSE i
    IN  [W EXCEPT !.sockets = [i \in SocketSlots |-> W.sockets[swap(i)]],
                  !.socket = IF W.socket # 0 THEN 1 ELSE 0]

SetWs(W0) ==
    LET W == Renumber(Collect(W0))
    IN  /\ socket' = W.socket
        /\ sockets' = W.sockets
        /\ connectionUrl' = W.connectionUrl
        /\ status' = W.status
        /\ explicitDisconnect' = W.explicitDisconnect
        /\ messageQueue' = W.messageQueue
        /\ onMessageCallback' = W.onMessageCallback
        /\ onOpenCallback' = W.onOpenCallback
        /\ onStatusChangeCallback' = W.onStatusChangeCallback
        /\ pendingConnects' = W.pendingConnects
        /\ lastDelivered' = W.lastDelivered
        /\ statusCalls' = StatusCalls(W.trace)

Statuses == {"CONNECTING", "OPEN", "CLOSING", "CLOSED", "RECONNECTING"}

\* The fields a new WebSocketService starts with
WsConstructed ==
    /\ socket = 0
    /\ sockets = [i \in SocketSlots |-> NoSocket]
    /\ status = "CLOSED"
    /\ explicitDisconnect = FALSE
    /\ messageQueue = <<>>
    /\ onMessageCallback = NULL
    /\ onOpenCallback = NULL
    /\ onStatusChangeCallback = NULL
    /\ appStateSubscribed = TRUE
    /\ pendingConnects = 0
    /\ lastDelivered = NULL
    /\ deferredListeners = {}
    /\ lastCall = "none"
    /\ statusCalls = <<>>

\* new WebSocketService(url, options) with autoConnect left at its default
WsInit ==
    /\ connectionUrl = NULL
    /\ wsOptions \in WsOptionSets
    /\ WsConstructed

\* new WebSocketService() with DEFAULT_OPTIONS
WsDefault ==
    /\ connectionUrl = NULL
    /\ wsOptions = [queueMessages |-> TRUE, reconnection |-> TRUE]
    /\ WsConstructed

\* connect(url) called by the application
WsConnect(url) ==
    /\ ConnectSuspends(WsState, url) => pendingConnects < MaxPending
    /\ SetWs(connectStart(WsState, url))
    /\ lastCall' = "connect"
    /\ UNCHANGED <<wsOptions, appStateSubscribed, deferredListeners>>
    /\ UNCHANGED wsRest

\* A suspended connect() resumes when getAuthData() has settled
WsConnectResume(authOk, ioOk) ==
    /\ pendingConnects > 0
    /\ ioOk => \E i \in SocketSlots : sockets[i].state = "none"
    /\ SetWs(connectResume(WsState, authOk, ioOk))
    /\ UNCHANGED <<wsOptions, appStateSubscribed, deferredListeners, lastCall>>
    /\ UNCHANGED wsRest

WsSendMessage(eventName) ==
    /\ Len(messageQueue) < MaxQueue
    /\ SetWs(sendMessage(WsState, eventName))
    /\ UNCHANGED <<wsOptions, appStateSubscribed, deferredListeners, lastCall>>
    /\ UNCHANGED wsRest

WsDisconnect(preventReconnect) ==
    /\ SetWs(disconnect(WsState, preventReconnect))
    /\ lastCall' = IF preventReconnect /\ lastCall # "cleanup" THEN "disconnect"
                   ELSE lastCall
    /\ UNCHANGED <<wsOptions, appStateSubscribed, deferredListeners>>
    /\ UNCHANGED wsRest

WsCleanup ==
    /\ SetWs(cleanup(WsState))
    /\ appStateSubscribed' = FALSE
    /\ lastCall' = "cleanup"
    /\ UNCHANGED <<wsOptions, deferredListeners>>
    /\ UNCHANGED wsRest

\* AppState delivers 'change' with the next state; handleAppStateChange runs
\* if it is registered.  Two 'active' events have an 'inactive' or
\* 'background' event between them, which the handler only logs.
WsAppStateChange(nextAppState) ==
    /\ pendingConnects < MaxPending
    /\ IF appStateSubscribed
       THEN SetWs(handleAppStateChange(WsState, nextAppState))
       ELSE SetWs(WsState)
    /\ UNCHANGED <<wsOptions, appStateSubscribed, deferredListeners, lastCall>>
    /\ UNCHANGED wsRest

WsSetOnMessage ==
    /\ SetWs([WsState EXCEPT !.onMessageCallback = "onMessage"])
    /\ UNCHANGED <<wsOptions, appStateSubscribed, deferredListeners, lastCall>>
    /\ UNCHANGED wsRest

WsSetOnOpen ==
    /\ SetWs([WsState EXCEPT !.onOpenCallback = "onOpen"])
    /\ UNCHANGED <<wsOptions, appStateSubscribed, deferredListeners, lastCall>>
    /\ UNCHANGED wsRest

\* setOnStatusChange(callback): stores the callback and calls it with this.status
WsSetOnStatusChange ==
    /\ SetWs([Call([WsState EXCEPT !.onStatusChangeCallback = "onStatusChange"],
                   "callback(status)", status)
              EXCEPT !.lastDelivered = status])
    /\ UNCHANGED <<wsOptions, appStateSubscribed, deferredListeners, lastCall>>
    /\ UNCHANGED wsRest

\* on(eventName, callback): attached to this.socket if there is one, else dropped
WsOn(eventName) ==
    /\ IF socket # 0
       THEN /\ SetWs([WsState EXCEPT !.sockets[socket].listeners = @ \cup {eventName}])
            /\ UNCHANGED deferredListeners
       ELSE /\ SetWs(WsState)
            /\ deferredListeners' = IF pendingConnects = 0
                                    THEN deferredListeners \cup {eventName}
                                    ELSE deferredListeners
    /\ UNCHANGED <<wsOptions, appStateSubscribed, lastCall>>
    /\ UNCHANGED wsRest

\* off(eventName, callback)
WsOff(eventName) ==
    /\ IF socket # 0
       THEN SetWs([WsState EXCEPT !.sockets[socket].listeners = @ \ {eventName}])
       ELSE SetWs(WsState)
    /\ deferredListeners' = deferredListeners \ {eventName}
    /\ UNCHANGED <<wsOptions, appStateSubscribed, lastCall>>
    /\ UNCHANGED wsRest

\* The service after socket.io has delivered 'connect' for the Socket in slot s
ConnectDelivered(s) ==
    LET W == [WsState EXCEPT !.sockets[s].state = "connected"]
    IN  IF sockets[s].handlers THEN OnConnect(W) ELSE W

\* socket.io delivers 'connect' for the Socket in slot s
SockConnect(s) ==
    /\ sockets[s].state = "connecting"
    /\ SetWs(ConnectDelivered(s))
    /\ UNCHANGED <<wsOptions, appStateSubscribed, deferredListeners, lastCall>>
    /\ UNCHANGED wsRest

\* socket.io delivers 'connect_error' or 'reconnect_error': the attempt failed
SockConnectError(s, event) ==
    /\ sockets[s].state = "connecting"
    /\ LET W == [WsState EXCEPT !.sockets[s].state =
                     IF wsOptions.reconnection THEN "reconnecting" ELSE "closed"]
       IN  SetWs(IF sockets[s].handlers
                 THEN handleError(updateStatus(W, "RECONNECTING"), event)
                 ELSE W)
    /\ UNCHANGED <<wsOptions, appStateSubscribed, deferredListeners, lastCall>>
    /\ UNCHANGED wsRest

\* socket.io delivers 'reconnect_attempt': a new attempt starts
SockReconnectAttempt(s) ==
    /\ sockets[s].state = "reconnecting"
    /\ LET W == [WsState EXCEPT !.sockets[s].state = "connecting"]
       IN  SetWs(IF sockets[s].handlers THEN updateStatus(W, "RECONNECTING") ELSE W)
    /\ UNCHANGED <<wsOptions, appStateSubscribed, deferredListeners, lastCall>>
    /\ UNCHANGED wsRest

\* socket.io delivers 'reconnect_failed': it gives up
SockReconnectFailed(s) ==
    /\ sockets[s].state = "reconnecting"
    /\ LET W == [WsState EXCEPT !.sockets[s].state = "closed"]
       IN  SetWs(IF sockets[s].handlers
                 THEN handleError(updateStatus(W, "CLOSED"), "reconnect_failed")
                 ELSE W)
    /\ UNCHANGED <<wsOptions, appStateSubscribed, deferredListeners, lastCall>>
    /\ UNCHANGED wsRest

\* socket.io delivers 'error'
SockError(s) ==
    /\ sockets[s].state \in {"connecting", "connected", "reconnecting"}
    /\ SetWs(IF sockets[s].handlers THEN handleError(WsState, "error") ELSE WsState)
    /\ UNCHANGED <<wsOptions, appStateSubscribed, deferredListeners, lastCall>>
    /\ UNCHANGED wsRest

\* socket.io delivers 'disconnect' because the transport or the server closed
SockDisconnect(s, reason) ==
    /\ sockets[s].state = "connected"
    /\ LET W == [WsState EXCEPT !.sockets[s].state =
                     IF wsOptions.reconnection /\ reason = "transport close"
                     THEN "reconnecting" ELSE "closed"]
       IN  SetWs(IF sockets[s].handlers THEN OnDisconnect(W, reason) ELSE W)
    /\ UNCHANGED <<wsOptions, appStateSubscribed, deferredListeners, lastCall>>
    /\ UNCHANGED wsRest

\* An application event arrives on the Socket in slot s
SockIncoming(s, event) ==
    /\ sockets[s].state = "connected"
    /\ SetWs(OnIncoming(WsState, s, event))
    /\ UNCHANGED <<wsOptions, appStateSubscribed, deferredListeners, lastCall>>
    /\ UNCHANGED wsRest

WsNext ==
    \/ \E url \in WsUrls \cup {NULL} : WsConnect(url)
    \/ \E authOk \in BOOLEAN, ioOk \in BOOLEAN : WsConnectResume(authOk, ioOk)
    \/ \E e \in WsEvents : WsSendMessage(e)
    \/ \E p \in BOOLEAN : WsDisconnect(p)
    \/ WsCleanup
    \/ \E a \in AppStates : WsAppStateChange(a)
    \/ WsSetOnMessage
    \/ WsSetOnOpen
    \/ WsSetOnStatusChange
    \/ \E e \in WsListened : WsOn(e)
    \/ \E e \in WsListened : WsOff(e)
    \/ \E s \in SocketSlots : SockConnect(s)
    \/ \E s \in SocketSlots, e \in {"connect_error", "reconnect_error"} :
          SockConnectError(s, e)
    \/ \E s \in SocketSlots : SockReconnectAttempt(s)
    \/ \E s \in SocketSlots : SockReconnectFailed(s)
    \/ \E s \in SocketSlots : SockError(s)
    \/ \E s \in SocketSlots, r \in {"transport close", "io server disconnect"} :
          SockDisconnect(s, r)
    \/ \E s \in SocketSlots, e \in WsIncoming : SockIncoming(s, e)

(***************************************************************************)
(* Claims about ServerSentEventsService                                    *)
(***************************************************************************)

\* A step in which connect() ran for id although the service had listener
\* bookkeeping for id from an earlier connect()
ConnectedAgain(id) ==
    /\ MapHas(eventListeners, id)
    /\ id \in Recreated(eventSources, eventSources')

\* C1: whenever connect(id, ...) runs again for an id (directly, through
\* reconnect(id) or through the automatic reconnection), every (type,
\* listener) pair added with addListener and not removed is attached to the
\* new EventSource and is still recorded in eventListeners for that id.
C1_ListenersReattached ==
    [][\A id \in SseIds :
          ConnectedAgain(id) =>
             \A pair \in Range(eventListeners[id]) :
                /\ pair \in eventSources'[id].listeners
                /\ pair \in Range(ListenersOf(eventListeners', id))]_sseVars

NetAvailable(state) == state.isConnected /\ state.isInternetReachable

AppBecameActive == appState # "active" /\ appState' = "active"

NetBecameAvailable == ~NetAvailable(netState) /\ NetAvailable(netState')

\* Every CLOSED source of the map is replaced by a new EventSource made from
\* the stored url and options; CONNECTING and OPEN sources are untouched.
ClosedReplacedOthersUntouched ==
    /\ DOMAIN eventSources' = DOMAIN eventSources
    /\ \A id \in DOMAIN eventSources :
          IF eventSources[id].readyState = CLOSED
          THEN /\ MapHas(connectionParams, id)
               /\ eventSources'[id].gen # eventSources[id].gen
               /\ eventSources'[id].readyState = CONNECTING
               /\ eventSources'[id].url = connectionParams[id].url
               /\ eventSources'[id].options = connectionParams[id].options
          ELSE eventSources'[id] = eventSources[id]

\* C2 as stated: the app becoming active or the network becoming available
\* replaces every CLOSED connection and leaves the others untouched, in
\* every state reachable through connect, close, closeAll, reconnect and
\* cleanup.
C2_AutoReconnectAlways ==
    [][(AppBecameActive \/ NetBecameAvailable) => ClosedReplacedOthersUntouched]_sseVars

\* C2 amended: the same, while the platform subscription that delivers the
\* event is still registered, i.e. as long as cleanup() has not been called.
C2_AutoReconnectWhileSubscribed ==
    [][/\ (AppBecameActive /\ appStateListener) => ClosedReplacedOthersUntouched
       /\ (NetBecameAvailable /\ netInfoSubscription) => ClosedReplacedOthersUntouched]_sseVars

\* C2 witness: a platform event has just re-created the CLOSED source of one
\* id while the other id's source stayed OPEN.
C2_Witness ==
    /\ sseEvent.event \in {"appState", "netInfo"}
    /\ \E id \in sseEvent.reconnected, other \in DOMAIN eventSources :
          /\ other \notin sseEvent.reconnected
          /\ eventSources[id].readyState = CONNECTING
          /\ eventSources[other].readyState = OPEN


(***************************************************************************)
(* Claims about WebSocketService                                           *)
(***************************************************************************)

\* The arguments of the calls of one kind in a trace, in order
ArgsOf(trace, kind) ==
    LET sel == SelectSeq(trace, LAMBDA c : c[1] = kind)
    IN  [i \in 1..Len(sel) |-> sel[i][2]]

\* C3: sendMessage returns true if the message was emitted or queued and
\* false only on error.
C3_SendMessageResult ==
    [][\A e \in WsEvents :
          WsSendMessage(e) =>
             LET R == sendMessage(WsState, e)
             IN  R.ret <=> \/ ArgsOf(R.trace, "emit") # <<>>
                           \/ Len(R.messageQueue) = Len(messageQueue) + 1]_wsVars

\* C4: with queueMessages enabled the queued messages are emitted on the next
\* 'connect' event in the order they were queued, all before onOpen is
\* called; with queueMessages disabled the queue is always empty and nothing
\* is emitted on connect.
C4_QueueFlushedOnConnect ==
    [][/\ \A s \in SocketSlots :
             (SockConnect(s) /\ sockets[s].handlers) =>
                LET R == ConnectDelivered(s)
                IN  IF wsOptions.queueMessages
                    THEN /\ ArgsOf(R.trace, "emit") = messageQueue
                         /\ R.messageQueue = <<>>
                         /\ \A i, j \in 1..Len(R.trace) :
                               (R.trace[i][1] = "onOpen" /\ R.trace[j][1] = "emit")
                                  => j < i
                    ELSE ArgsOf(R.trace, "emit") = <<>>
       /\ ~wsOptions.queueMessages => messageQueue' = <<>>]_wsVars

\* A step that starts a connection: a connect() call reaches its await, a
\* Socket object is made, or a socket begins to connect or becomes connected
ConnectionStarted ==
    \/ pendingConnects' > pendingConnects
    \/ \E s \in SocketSlots :
          /\ sockets'[s].state \in {"connecting", "connected"}
          /\ sockets[s].state \notin {"connecting", "connected"}
    \/ \E s \in SocketSlots :
          sockets[s].state = "connecting" /\ sockets'[s].state = "connected"

\* C5: after disconnect(true) nothing connects the service again until
\* connect() is called explicitly, in particular no AppState change to
\* 'active'; conversely the app becoming active while a socket exists, is not
\* connected, was not explicitly disconnected and reconnection is enabled
\* invokes connect().
C5_DisconnectPreventsReconnect ==
    [][/\ (lastCall = "disconnect" /\ lastCall' = "disconnect") => ~ConnectionStarted
       /\ (/\ WsAppStateChange("active")
           /\ appStateSubscribed
           /\ socket # 0
           /\ sockets[socket].state # "connected"
           /\ ~explicitDisconnect
           /\ wsOptions.reconnection)
          => \/ sockets[socket].state = "connecting"
             \/ pendingConnects' = pendingConnects + 1]_wsVars

\* C6: after cleanup() has returned the service holds no socket, the queue is
\* empty and the callbacks are cleared, and as long as the application does
\* not call connect() no socket is created or connected, whatever connect()
\* calls were awaiting their token and whatever AppState events follow.
C6_CleanupStaysClosed ==
    [][/\ (lastCall # "cleanup" /\ lastCall' = "cleanup") =>
             /\ socket' = 0
             /\ messageQueue' = <<>>
             /\ onMessageCallback' = NULL
             /\ onOpenCallback' = NULL
             /\ onStatusChangeCallback' = NULL
       /\ (lastCall = "cleanup" /\ lastCall' = "cleanup") =>
             /\ socket' = 0
             /\ ~ConnectionStarted]_wsVars

\* C7: a listener given to on() while there was no socket is registered on
\* the socket of the next connection.
C7_DeferredListenerAttached ==
    socket # 0 => deferredListeners \subseteq sockets[socket].listeners

\* C8: with a callback set by setOnMessage, every application event that
\* arrives on the service's connected socket, 'message' included, calls the
\* callback exactly once.
C8_OnMessageExactlyOnce ==
    (/\ onMessageCallback # NULL
     /\ socket # 0
     /\ sockets[socket].state = "connected")
    => \A e \in WsIncoming :
          ArgsOf(OnIncoming(WsState, socket, e).trace, "onMessage") = <<e>>

maxReconnectAttempts == 10

\* Bounds of the MQTTService model
MaxClients == 2
MaxAttemptsCounted == 12
MaxOps == 2
MaxSubsClients == 1
MaxSubsAttempts == 1

ClientSlots == 1..MaxClients

NoClient == [state |-> "none", promise |-> "none", endListener |-> FALSE]

\* The service's fields as one value the handlers transform
MqttState == [client |-> client, clients |-> clients, connected |-> connected,
              connecting |-> connecting, reconnectAttempts |-> reconnectAttempts]

SetMqtt(M) ==
    /\ client' = M.client
    /\ clients' = M.clients
    /\ connected' = M.connected
    /\ connecting' = M.connecting
    /\ reconnectAttempts' = M.reconnectAttempts

\* resolve() / reject(): a promise settles once, later calls do nothing
Settle(M, k, outcome) ==
    IF M.clients[k].promise = "pending"
    THEN [M EXCEPT !.clients[k].promise = outcome]
    ELSE M

\* client.end() of MQTT.js: the client stops for good and emits 'end' later
ClientEndCall(M, k) ==
    IF M.clients[k].state \in {"connecting", "connected", "offline"}
    THEN [M EXCEPT !.clients[k].state = "ending"]
    ELSE M

\* The 'connect' handler of the client made by connect() call k
OnMqttConnect(M, k) ==
    Settle([M EXCEPT !.connected = TRUE, !.connecting = FALSE,
                     !.reconnectAttempts = 0], k, "resolved")

\* The 'error' handler
OnMqttError(M, k) ==
    IF M.connecting
    THEN Settle([M EXCEPT !.connecting = FALSE], k, "rejected")
    ELSE M

\* The 'disconnect', 'close' and 'offline' handlers
OnMqttDown(M) == [M EXCEPT !.connected = FALSE]

\* The 'reconnect' handler: at maxReconnectAttempts it ends this.client
OnMqttReconnect(M) ==
    LET M1 == [M EXCEPT !.reconnectAttempts = @ + 1]
    IN  IF M1.reconnectAttempts >= maxReconnectAttempts /\ M1.client # 0
        THEN ClientEndCall(M1, M1.client)
        ELSE M1

\* The slot of the client the next MQTT.connect makes
NextClient == CHOOSE k \in ClientSlots :
                 /\ clients[k].state = "none"
                 /\ \A j \in ClientSlots : clients[j].state = "none" => k <= j

\* Topics and QoS levels subscribe() is called with
Topics == {"a", "b"}
QoSLevels == {0, 1}

OpSlots == 1..MaxOps

\* A subscribe() or unsubscribe() call under way is at one of three awaits:
\* "broker" (the callback of client.subscribe / client.unsubscribe),
\* "read" (AsyncStorage.getItem) and "write" (AsyncStorage.setItem of value)
NoOp == [phase |-> "none", kind |-> "none", topic |-> "", qos |-> 0,
         client |-> 0, value |-> <<>>]

\* AsyncStorage without the 'mqttSubscriptions' item: getItem gives null
NoStorage == [exists |-> FALSE, items |-> <<>>]

\* storedSubscriptions.findIndex(sub => sub.topic === topic) !== -1
Exists(items, topic) == \E i \in 1..Len(items) : items[i].topic = topic

\* storedSubscriptions.filter(sub => sub.topic !== topic)
Filtered(items, topic) == SelectSeq(items, LAMBDA sub : sub.topic # topic)

\* resubscribe() after its AsyncStorage.getItem has given st: the
\* client.subscribe(topic, {qos}) calls it makes, none when not connected
resubscribe(M, st) ==
    IF M.client = 0 \/ ~M.connected \/ ~st.exists THEN <<>> ELSE st.items

\* The slot the next subscribe() or unsubscribe() call takes
FreeOp == CHOOSE i \in OpSlots :
             /\ ops[i].phase = "none"
             /\ \A j \in OpSlots : ops[j].phase = "none" => i <= j

MqttInit ==
    /\ client = 0
    /\ clients = [k \in ClientSlots |-> NoClient]
    /\ connected = FALSE
    /\ connecting = FALSE
    /\ reconnectAttempts = 0
    /\ storage = NoStorage
    /\ ops = [i \in OpSlots |-> NoOp]
    /\ latestOp = [t \in Topics |-> "none"]

\* connect(options).  created: MQTT.connect returned a client (it did not throw).
MqttConnect(created) ==
    /\ IF client # 0 /\ connected
       THEN UNCHANGED mqttVars
       ELSE IF connecting
       THEN UNCHANGED mqttVars
       ELSE IF created
       THEN /\ \E k \in ClientSlots : clients[k].state = "none"
            /\ SetMqtt([MqttState EXCEPT
                   !.connecting = TRUE,
                   !.client = NextClient,
                   !.clients[NextClient] =
                       [state |-> "connecting", promise |-> "pending",
                        endListener |-> FALSE]])
       ELSE UNCHANGED mqttVars
    /\ UNCHANGED mqttRest

\* MQTT.js emits 'connect' on client k.  The handler also calls resubscribe(),
\* which changes no field of the service (see the operator resubscribe).
MqttClientConnect(k) ==
    /\ clients[k].state = "connecting"
    /\ SetMqtt(OnMqttConnect([MqttState EXCEPT !.clients[k].state = "connected"], k))
    /\ UNCHANGED mqttRest

\* MQTT.js emits 'error' on client k
MqttClientError(k) ==
    /\ clients[k].state \in {"connecting", "connected", "offline"}
    /\ SetMqtt(OnMqttError(MqttState, k))
    /\ UNCHANGED mqttRest

\* MQTT.js emits 'disconnect' on client k: the broker sent a DISCONNECT packet
MqttClientDisconnect(k) ==
    /\ clients[k].state = "connected"
    /\ SetMqtt(OnMqttDown(MqttState))
    /\ UNCHANGED mqttRest

\* MQTT.js emits 'close' on client k: the connection or the attempt is over
MqttClientClose(k) ==
    /\ clients[k].state \in {"connecting", "connected"}
    /\ SetMqtt(OnMqttDown([MqttState EXCEPT !.clients[k].state = "offline"]))
    /\ UNCHANGED mqttRest

\* MQTT.js emits 'offline' on client k
MqttClientOffline(k) ==
    /\ clients[k].state = "offline"
    /\ SetMqtt(OnMqttDown(MqttState))
    /\ UNCHANGED mqttRest

\* MQTT.js emits 'reconnect' on client k: after reconnectPeriod a new attempt starts
MqttClientReconnect(k) ==
    /\ clients[k].state = "offline"
    /\ reconnectAttempts < MaxAttemptsCounted
    /\ SetMqtt(OnMqttReconnect([MqttState EXCEPT !.clients[k].state = "connecting"]))
    /\ UNCHANGED mqttRest

\* MQTT.js emits 'end' on client k; the once('end') listener of disconnect() runs
MqttClientEnd(k) ==
    /\ clients[k].state = "ending"
    /\ SetMqtt(LET M == [MqttState EXCEPT !.clients[k].state = "ended",
                                          !.clients[k].endListener = FALSE]
               IN  IF clients[k].endListener
                   THEN [M EXCEPT !.connected = FALSE, !.connecting = FALSE]
                   ELSE M)
    /\ UNCHANGED mqttRest

\* disconnect()
MqttDisconnect ==
    /\ IF client = 0 \/ ~connected
       THEN UNCHANGED mqttVars
       ELSE SetMqtt(ClientEndCall([MqttState EXCEPT !.clients[client].endListener = TRUE],
                                  client))
    /\ UNCHANGED mqttRest

\* subscribe(topic, {qos}) without a handler: it rejects when not connected,
\* otherwise it calls client.subscribe and waits for the callback
MqttSubscribe(topic, qos) ==
    /\ IF client = 0 \/ ~connected
       THEN UNCHANGED ops
       ELSE /\ \E i \in OpSlots : ops[i].phase = "none"
            /\ ops' = [ops EXCEPT ![FreeOp] =
                          [phase |-> "broker", kind |-> "subscribe", topic |-> topic,
                           qos |-> qos, client |-> client, value |-> <<>>]]
    /\ UNCHANGED <<storage, latestOp, subRest>>

\* unsubscribe(topic)
MqttUnsubscribe(topic) ==
    /\ IF client = 0 \/ ~connected
       THEN UNCHANGED ops
       ELSE /\ \E i \in OpSlots : ops[i].phase = "none"
            /\ ops' = [ops EXCEPT ![FreeOp] =
                          [phase |-> "broker", kind |-> "unsubscribe", topic |-> topic,
                           qos |-> 0, client |-> client, value |-> <<>>]]
    /\ UNCHANGED <<storage, latestOp, subRest>>

\* The callback of client.subscribe of call i.  With err it rejects; without
\* (the broker's SUBACK has come) it calls saveSubscription, which runs up to
\* its AsyncStorage.getItem, and resolves.
MqttSubscribeCallback(i, err) ==
    /\ ops[i].phase = "broker" /\ ops[i].kind = "subscribe"
    /\ IF err
       THEN /\ ops' = [ops EXCEPT ![i] = NoOp]
            /\ UNCHANGED latestOp
       ELSE /\ clients[ops[i].client].state = "connected"
            /\ ops' = [ops EXCEPT ![i].phase = "read", ![i].client = 0]
            /\ latestOp' = [latestOp EXCEPT ![ops[i].topic] = "subscribe"]
    /\ UNCHANGED <<storage, subRest>>

\* The callback of client.unsubscribe of call i
MqttUnsubscribeCallback(i, err) ==
    /\ ops[i].phase = "broker" /\ ops[i].kind = "unsubscribe"
    /\ IF err
       THEN /\ ops' = [ops EXCEPT ![i] = NoOp]
            /\ UNCHANGED latestOp
       ELSE /\ clients[ops[i].client].state = "connected"
            /\ ops' = [ops EXCEPT ![i].phase = "read", ![i].client = 0]
            /\ latestOp' = [latestOp EXCEPT ![ops[i].topic] = "unsubscribe"]
    /\ UNCHANGED <<storage, subRest>>

\* saveSubscription of call i goes on after getItem: the topic is pushed to
\* the list read unless it is in it, and setItem is called with the new list
SaveSubscriptionRead(i) ==
    /\ ops[i].phase = "read" /\ ops[i].kind = "subscribe"
    /\ ops' = IF Exists(storage.items, ops[i].topic)
              THEN [ops EXCEPT ![i] = NoOp]
              ELSE [ops EXCEPT ![i].phase = "write",
                               ![i].value = Append(storage.items,
                                               [topic |-> ops[i].topic, qos |-> ops[i].qos])]
    /\ UNCHANGED <<storage, latestOp, subRest>>

\* removeSubscription of call i goes on after getItem: with an item stored,
\* setItem is called with the list read less the topic
RemoveSubscriptionRead(i) ==
    /\ ops[i].phase = "read" /\ ops[i].kind = "unsubscribe"
    /\ ops' = IF storage.exists
              THEN [ops EXCEPT ![i].phase = "write",
                               ![i].value = Filtered(storage.items, ops[i].topic)]
              ELSE [ops EXCEPT ![i] = NoOp]
    /\ UNCHANGED <<storage, latestOp, subRest>>

\* AsyncStorage.setItem of saveSubscription of call i takes effect
SaveSubscriptionWrite(i) ==
    /\ ops[i].phase = "write" /\ ops[i].kind = "subscribe"
    /\ storage' = [exists |-> TRUE, items |-> ops[i].value]
    /\ ops' = [ops EXCEPT ![i] = NoOp]
    /\ UNCHANGED <<latestOp, subRest>>

\* AsyncStorage.setItem of removeSubscription of call i takes effect
RemoveSubscriptionWrite(i) ==
    /\ ops[i].phase = "write" /\ ops[i].kind = "unsubscribe"
    /\ storage' = [exists |-> TRUE, items |-> ops[i].value]
    /\ ops' = [ops EXCEPT ![i] = NoOp]
    /\ UNCHANGED <<latestOp, subRest>>

MqttNext ==
    \/ \E created \in BOOLEAN : MqttConnect(created)
    \/ \E k \in ClientSlots : MqttClientConnect(k)
    \/ \E k \in ClientSlots : MqttClientError(k)
    \/ \E k \in ClientSlots : MqttClientDisconnect(k)
    \/ \E k \in ClientSlots : MqttClientClose(k)
    \/ \E k \in ClientSlots : MqttClientOffline(k)
    \/ \E k \in ClientSlots : MqttClientReconnect(k)
    \/ \E k \in ClientSlots : MqttClientEnd(k)
    \/ MqttDisconnect

\* The subscriptions are explored along the connections of MaxSubsClients
\* clients with up to MaxSubsAttempts reconnect attempts in a row
SubsBound ==
    /\ Cardinality({k \in ClientSlots : clients[k].state # "none"}) <= MaxSubsClients
    /\ reconnectAttempts <= MaxSubsAttempts

\* The steps of MQTTService with its subscriptions
MqttSubsNext ==
    \/ \E created \in BOOLEAN : MqttConnect(created) /\ SubsBound'
    \/ \E k \in ClientSlots : MqttClientConnect(k)
    \/ \E k \in ClientSlots : MqttClientError(k)
    \/ \E k \in ClientSlots : MqttClientDisconnect(k)
    \/ \E k \in ClientSlots : MqttClientClose(k)
    \/ \E k \in ClientSlots : MqttClientOffline(k)
    \/ \E k \in ClientSlots : MqttClientReconnect(k) /\ SubsBound'
    \/ \E k \in ClientSlots : MqttClientEnd(k)
    \/ MqttDisconnect
    \/ \E topic \in Topics, qos \in QoSLevels : MqttSubscribe(topic, qos)
    \/ \E topic \in Topics : MqttUnsubscribe(topic)
    \/ \E i \in OpSlots, err \in BOOLEAN : MqttSubscribeCallback(i, err)
    \/ \E i \in OpSlots, err \in BOOLEAN : MqttUnsubscribeCallback(i, err)
    \/ \E i \in OpSlots : SaveSubscriptionRead(i)
    \/ \E i \in OpSlots : RemoveSubscriptionRead(i)
    \/ \E i \in OpSlots : SaveSubscriptionWrite(i)
    \/ \E i \in OpSlots : RemoveSubscriptionWrite(i)

(***************************************************************************)
(* Claims about MQTTService                                                *)
(***************************************************************************)

\* C10: the promise of connect() settles in every execution, also when the
\* client never connects and the reconnect attempts reach
\* maxReconnectAttempts: a client that end() has stopped emits neither
\* 'connect' nor 'error' any more, so its promise has settled by then.  Once
\* the promises have settled, connecting is false and a later connect() is
\* not rejected with 'Connection already in progress'.
C10_ConnectPromiseSettles ==
    /\ reconnectAttempts >= maxReconnectAttempts =>
          \A k \in ClientSlots :
             clients[k].state \in {"ending", "ended"} => clients[k].promise # "pending"
    /\ (\A k \in ClientSlots : clients[k].promise # "pending") => ~connecting

\* The clients MQTT.connect has made that MQTT.js still drives: connecting,
\* connected, or waiting to reconnect
ActiveClients(cs) ==
    {k \in ClientSlots : cs[k].state \in {"connecting", "connected", "offline"}}

\* C11: at most one client made by the service is active at any time;
\* connect() makes a client only when it is neither connected nor
\* connecting and no earlier client is still connected, connecting or
\* reconnecting.
C11_AtMostOneActiveClient ==
    [][/\ Cardinality(ActiveClients(clients')) <= 1
       /\ \A k \in ClientSlots :
             (clients[k].state = "none" /\ clients'[k].state # "none") =>
                /\ ~(client # 0 /\ connected)
                /\ ~connecting
                /\ ActiveClients(clients) = {}]_mqttVars

\* The topics of a stored list
StoredTopics(items) == {items[i].topic : i \in 1..Len(items)}

\* No subscribe() or unsubscribe() call has a storage read or write to come
WritesCompleted == \A i \in OpSlots : ops[i].phase \in {"none", "broker"}

\* C12: once the storage writes of the subscribe() and unsubscribe() calls
\* have completed, the stored 'mqttSubscriptions' list holds exactly the
\* topics whose latest acknowledged operation is a subscribe, each once, and
\* a resubscribe() of the connected service then subscribes to every one of
\* these topics.
C12_StoredSubscriptions ==
    WritesCompleted =>
       /\ StoredTopics(storage.items) = {t \in Topics : latestOp[t] = "subscribe"}
       /\ \A i, j \in 1..Len(storage.items) :
             storage.items[i].topic = storage.items[j].topic => i = j
       /\ (client # 0 /\ connected) =>
             \A t \in Topics :
                latestOp[t] = "subscribe" =>
                   t \in StoredTopics(resubscribe(MqttState, storage))

(***************************************************************************)
(* TodoProvider (context/TodoContext.tsx)                                  *)
(***************************************************************************)

\* Bounds of the TodoProvider model
MaxLen == 3
MaxTodoIds == 3

\* Texts are sequences of characters: a blank and a letter
Whitespace == {" "}
Chars == Whitespace \cup {"a"}

Texts == UNION {[1..n -> Chars] : n \in 0..MaxLen}

\* The ids uuid.v4() gives out, each once
TodoIds == 1..MaxTodoIds

\* Ids a caller may pass: the ones given out and one that no todo has
CallIds == 0..MaxTodoIds

RECURSIVE trimStart(_)
trimStart(s) ==
    IF s # <<>> /\ Head(s) \in Whitespace THEN trimStart(Tail(s)) ELSE s

RECURSIVE trimEnd(_)
trimEnd(s) ==
    IF s # <<>> /\ s[Len(s)] \in Whitespace
    THEN trimEnd(SubSeq(s, 1, Len(s) - 1))
    ELSE s

\* A trim that removes leading whitespace only
trim_StartOnly(s) == trimStart(s)

\* String.prototype.trim
trim(s) == trimEnd(trimStart(s))

\* useState initial value: 'Learn React Native' and 'Build a Todo App', the
\* letters of a word written as one "a"
TodoInit ==
    /\ todos = << [id |-> 1, text |-> <<"a", " ", "a">>, completed |-> FALSE],
                  [id |-> 2, text |-> <<"a", " ", "a">>, completed |-> TRUE] >>
    /\ nextId = 3
    /\ todoCall = [op |-> "none", id |-> 0, text |-> <<>>]

\* addTodo(text)
AddTodo(text) ==
    /\ IF trim(text) = <<>>
       THEN UNCHANGED <<todos, nextId>>
       ELSE /\ nextId <= MaxTodoIds
            /\ todos' = Append(todos, [id |-> nextId, text |-> trim(text),
                                       completed |-> FALSE])
            /\ nextId' = nextId + 1
    /\ todoCall' = [op |-> "addTodo", id |-> 0, text |-> text]
    /\ UNCHANGED todoRest

\* updateTodo(id, newText)
UpdateTodo(id, newText) ==
    /\ IF trim(newText) = <<>>
       THEN UNCHANGED todos
       ELSE todos' = [i \in 1..Len(todos) |->
                        IF todos[i].id = id
                        THEN [todos[i] EXCEPT !.text = trim(newText)]
                        ELSE todos[i]]
    /\ todoCall' = [op |-> "updateTodo", id |-> id, text |-> newText]
    /\ UNCHANGED <<nextId, todoRest>>

\* toggleTodo(id)
ToggleTodo(id) ==
    /\ todos' = [i \in 1..Len(todos) |->
                   IF todos[i].id = id
                   THEN [todos[i] EXCEPT !.completed = ~todos[i].completed]
                   ELSE todos[i]]
    /\ todoCall' = [op |-> "toggleTodo", id |-> id, text |-> <<>>]
    /\ UNCHANGED <<nextId, todoRest>>

\* deleteTodo(id)
DeleteTodo(id) ==
    /\ todos' = SelectSeq(todos, LAMBDA todo : todo.id # id)
    /\ todoCall' = [op |-> "deleteTodo", id |-> id, text |-> <<>>]
    /\ UNCHANGED <<nextId, todoRest>>

TodoNext ==
    \/ \E text \in Texts : AddTodo(text)
    \/ \E id \in CallIds, newText \in Texts : UpdateTodo(id, newText)
    \/ \E id \in CallIds : ToggleTodo(id)
    \/ \E id \in CallIds : DeleteTodo(id)

(***************************************************************************)
(* Claims about TodoProvider                                               *)
(***************************************************************************)

\* s is not empty and neither starts nor ends with whitespace
Trimmed(s) == s # <<>> /\ s[1] \notin Whitespace /\ s[Len(s)] \notin Whitespace

\* s is a run of whitespace only
Blank(s) == \A i \in 1..Len(s) : s[i] \in Whitespace

\* s is text without the whitespace at its two ends
TrimmedOf(s, text) ==
    /\ Trimmed(s)
    /\ \E i \in 1..Len(text) :
          /\ i + Len(s) - 1 <= Len(text)
          /\ s = SubSeq(text, i, i + Len(s) - 1)
          /\ Blank(SubSeq(text, 1, i - 1))
          /\ Blank(SubSeq(text, i + Len(s), Len(text)))

\* C13: every todo's text is non-empty without leading or trailing
\* whitespace.  addTodo with a blank text leaves the list as it is and
\* otherwise appends one todo, not completed, with the trimmed text;
\* updateTodo with a blank text leaves the list as it is and otherwise gives
\* the todo of that id the trimmed text and leaves the other todos alone.
C13_TodoTextsTrimmed ==
    [][/\ \A i \in 1..Len(todos') : Trimmed(todos'[i].text)
       /\ todoCall'.op = "addTodo" =>
             IF Blank(todoCall'.text)
             THEN todos' = todos
             ELSE /\ Len(todos') = Len(todos) + 1
                  /\ SubSeq(todos', 1, Len(todos)) = todos
                  /\ ~todos'[Len(todos')].completed
                  /\ TrimmedOf(todos'[Len(todos')].text, todoCall'.text)
       /\ todoCall'.op = "updateTodo" =>
             IF Blank(todoCall'.text)
             THEN todos' = todos
             ELSE /\ Len(todos') = Len(todos)
                  /\ \A i \in 1..Len(todos) :
                        /\ todos'[i].id = todos[i].id
                        /\ todos'[i].completed = todos[i].completed
                        /\ IF todos[i].id = todoCall'.id
                           THEN TrimmedOf(todos'[i].text, todoCall'.text)
                           ELSE todos'[i].text = todos[i].text]_todoVars

\* C13 witness: addTodo has just appended a todo, not completed, whose text
\* it had to trim at both ends.
C13_Witness ==
    /\ todoCall = [op |-> "addTodo", id |-> 0, text |-> <<" ", "a", " ">>]
    /\ Len(todos) = 3
    /\ todos[3] = [id |-> 3, text |-> <<"a">>, completed |-> FALSE]

vars == <<sseVars, wsVars, mqttVars, subVars, todoVars>>

Init == SseInit /\ WsInit /\ MqttInit /\ TodoInit

\* The three services constructed without arguments
InitDefault == SseInit /\ WsDefault /\ MqttInit /\ TodoInit

SpecSSE == InitDefault /\ [][SseNext]_vars

SpecWS == Init /\ [][WsNext]_vars

SpecMQTT == InitDefault /\ [][MqttNext]_vars

SpecMQTTSubs == InitDefault /\ [][MqttSubsNext]_vars

SpecTodo == InitDefault /\ [][TodoNext]_vars

====
